---- MODULE Spec2Model ----
(***************************************************************************)
(* Model of dlt (Datadog Logs Tail):                                       *)
(*   internal/datadog/logs.go   Client.TailLogs, Client.fetchLogsV2,       *)
(*                              Client.GetLogsFromTimestamp,               *)
(*                              Client.fetchAllLogsV2, Client.buildQueryV2 *)
(*   pkg/utils/retry.go         CalculateBackoff                           *)
(*   internal/config/config.go  Config.Validate                            *)
(*   cmd/tail.go                runTail                                    *)
(*   internal/output/formatter.go (package tui)  TUI.startLogTailing       *)
(*                                                                         *)
(* Each part of the program has its own variables and its own              *)
(* specification (Spec: tail loop, SpecBackoff, SpecBatch, SpecTUI,        *)
(* SpecQuery); a specification leaves the variables of the other parts at  *)
(* their initial values.  SpecScenario and SpecStorm run the tail loop     *)
(* with the fetch outcomes fixed.                                          *)
(*                                                                         *)
(* Time.  A time.Time is an integer count of clock ticks, a time.Duration  *)
(* a difference of two.  One tick stands for the resolution of Go's clock  *)
(* (time.Nanosecond); Second is the number of ticks in time.Second.  Go    *)
(* has 10^9 of them, which does not fit TLC's 32-bit integers, so the      *)
(* model keeps 1000: what the code relies on, that one tick is the         *)
(* smallest step and that a second holds many ticks, is preserved.  The    *)
(* float64 products of the code (x * 0.85, x * 1.05, ...) followed by the  *)
(* conversion to time.Duration are integer products followed by \div,      *)
(* which truncates the same way for the non-negative values used here.     *)
(* The zero time.Time is ZeroTime; every instant of the run is after it.   *)
(*                                                                         *)
(* The log source (the search API) is the environment: a growing set of    *)
(* stored entries, answered by Search for the window a request carries.    *)
(***************************************************************************)
EXTENDS Integers, Sequences, FiniteSets

\* ---------------------------------------------------------------- bounds
MaxFetches == 7      \* fetches issued in one run
MaxErrors == 2       \* fetches of one run that fail (rate limit or other)
MaxBackoffRetryCount == 7   \* greatest argument given to CalculateBackoff
MaxTimestampLen == 5        \* characters of the batch mode's timestamp value
MaxPages == 3               \* pages of the batch mode's source
MaxTuiFetches == 3          \* fetches of the TUI's poll task
MaxTagsLen == 4             \* characters of the tag filter given to buildQueryV2

\* ------------------------------------------------------ program constants
Second == 1000
Nanosecond == 1
ZeroTime == 0
StartTime == 100 * Second

baseInterval == 3 * Second
maxInterval == 30 * Second
minInterval == 2 * Second
initialRateLimitBackoff == 5 * Second
maxRateLimitBackoff == 60 * Second
initialSearchWindow == 30 * Second
searchWindowShrinkAbove == 15 * Second
searchWindowGrowBelow == 60 * Second
emptyFirstLookback == 30 * Second
emptyLookback == 10 * Second
pageLimit == 100
rateLimitResetAfter == 3
intervalShrinkAfter == 5
windowShrinkAtLeast == 5
DefaultRetryCount == 3
batchMaxRetries == 5
batchBaseDelay == 2 * Second
NoCursor == 0
tuiFirstWindow == 60 * Second
maxBackoffSeconds == 30

Min(a, b) == IF a < b THEN a ELSE b
Max(a, b) == IF a > b THEN a ELSE b

\* ------------------------------------------------------ environment inputs
\* Configured retry counts, bursts of entries the source stores during a
\* run (n entries one tick apart, the youngest age ticks old when stored,
\* each burst at most once), fetch latencies, draws of rand.Intn and of
\* rand.Float64 (per mille of the range).
RetryCounts == {1, 2}
Bursts == {[n |-> 1, age |-> 25 * Second], [n |-> 5, age |-> 1]}
Latencies == {Second \div 4}
IntnDraws == {0, 999}
Float64Draws == {999}

\* Arguments of CalculateBackoff called on its own, and the draws of
\* rand.Float64() in [0, 1), per mille.
BackoffRetryCounts == 0..MaxBackoffRetryCount
JitterDraws == 0..999

\* A string is a sequence of characters; a word the code never looks into
\* (an RFC3339 instant, a tag, a level name) is one character of the model.
\* Values of the batch mode's timestamp setting: any string of instants,
\* commas and spaces.
InstantValue ==
    [i \in {"2024-01-15T10:00:00Z", "2024-01-15T11:00:00Z"} |->
        IF i = "2024-01-15T10:00:00Z" THEN 10 * 3600 * Second ELSE 11 * 3600 * Second]
TimestampStrings ==
    UNION {[1..n -> DOMAIN InstantValue \cup {",", " "}] : n \in 0..MaxTimestampLen}

\* Sources of the batch mode: a chain of n pages of two entries each, page
\* i holding the ids 2i-1 and 2i, and the source without any entry (one
\* empty page).
PageChains ==
    {[i \in 1..n |-> <<2 * i - 1, 2 * i>>] : n \in 1..MaxPages} \cup {<< <<>> >>}

\* TUI mode: the tag filter the command was started with, and the texts the
\* user types into the input field.
ConfiguredTags == {<<>>, <<"env:prod">>}
FilterTexts == {<<>>, <<"service:web">>}

\* Configurations of the query builder: any tag filter made of a tag, commas
\* and spaces, and level settings with one level, two levels, spaces, only
\* separators, and names Validate rejects.
TagsStrings ==
    UNION {[1..n -> {"service:web", ",", " "}] : n \in 0..MaxTagsLen}
ValidLevels == {"debug", "info", "warn", "error"}
LevelStrings ==
    {<<>>, <<"error">>, <<"error", ",", "warn">>,
     <<" ", "error", " ", ",", "warn">>, <<" ", ",", " ">>,
     <<"error", " ", "warn">>, <<"fatal">>}
\* A credential as the command finds it: the value the loaded configuration
\* holds and the value of its environment variable, "" for not set.
CredentialSources ==
    {[cfg |-> "key", env |-> ""], [cfg |-> "", env |-> "key"],
     [cfg |-> "", env |-> ""]}
OutputFormats == {"text", "json", "xml"}
\* Configurations handed to GetLogs: their tag filter and level setting.
TempConfigs ==
    {[tags |-> <<>>, level |-> <<>>],
     [tags |-> <<"env:prod">>, level |-> <<"warn">>]}

\* Sources with an entry that is not well formed: the ids whose timestamp
\* attribute does not parse, and the ids the formatter rejects.
EntryFaults ==
    {[malformed |-> {1}, unformattable |-> {}],
     [malformed |-> {}, unformattable |-> {2}]}

\* Error responses of one fetch: status 0 is a transport failure, any other
\* status a non-2xx reply; body429 says whether the remaining error text
\* contains the characters "429".
FetchErrors == [status : {0, 429, 500}, body429 : BOOLEAN]

VARIABLES
    pc,                    \* "loop": at the head of the for loop; "returned"
    err,                   \* the error TailLogs returned, "" while running
    maxRetries,
    lastTimestamp,
    retryCount,
    currentInterval,
    rateLimitBackoff,
    consecutiveSuccesses,
    searchWindow,
    from,                  \* window of the most recent fetch (ZeroTime: none)
    to,
    output,                \* lines printed to stdout, in order
    now,                   \* time.Now()
    source,                \* entries stored by the search API
    fetches,               \* number of fetches issued so far
    rateLimits,            \* number of them handled as rate limited
    failures,              \* number of them that failed otherwise
    arrived,               \* bursts the source has stored
    lastResult,            \* outcome of the most recent fetch
    lastStatus429,         \* its response had the HTTP status 429
    lastCount,             \* len(logs) of the most recent fetch
    okTo,                  \* to of the most recent successful fetch
    okLatest,              \* latest reported by the most recent successful fetch
    prevOk,                \* okTo and okLatest of the successful fetch before it
    adopted,               \* okLatest if it was after lastTimestamp, else ZeroTime
    queried                \* ids stored and inside the window of some fetch

tailVars == <<pc, err, maxRetries, lastTimestamp, retryCount, currentInterval,
          rateLimitBackoff, consecutiveSuccesses, searchWindow, from, to,
          output, now, source, fetches, rateLimits, failures, arrived,
          lastResult, lastStatus429, lastCount, okTo, okLatest, prevOk,
          adopted, queried>>

\* utils.CalculateBackoff called on its own
VARIABLES
    cbRetryCount,          \* the argument retryCount
    cbDraw,                \* rand.Float64() of the call, per mille
    cbCalled,              \* the call has returned
    cbResult               \* the time.Duration it returned

backoffVars == <<cbRetryCount, cbDraw, cbCalled, cbResult>>

\* Client.GetLogsFromTimestamp and Client.fetchAllLogsV2 (batch mode)
VARIABLES
    bpc,                   \* "start", "fetch": about to request a page, "done", "failed"
    timestamp,             \* c.config.GetTimestamp()
    pages,                 \* the source's pages for the range, in cursor order
    batchFrom,             \* the parsed range
    batchTo,
    cursor,                \* NoCursor is the empty string
    allLogs,
    batchRetryCount,       \* retryCount of fetchAllLogsV2
    batchErr,              \* the error GetLogsFromTimestamp returned, "" if none
    batchOutput,           \* entries printed to stdout, in order
    batchFetches,          \* requests issued
    batchRateLimits,       \* of them answered with a rate-limit error
    batchPagesFetched,     \* of them answered with a page
    batchDelays,           \* inter-page delays taken
    batchLastNext,         \* next-cursor of the most recent page
    batchRequested,        \* cursor carried by the most recent request
    batchAttempt,          \* retryCount when the most recent rate limit was met
    batchTotalDelay        \* totalDelay slept after it

batchVars == <<bpc, timestamp, pages, batchFrom, batchTo, cursor, allLogs,
               batchRetryCount, batchErr, batchOutput, batchFetches,
               batchRateLimits, batchPagesFetched, batchDelays, batchLastNext,
               batchRequested, batchAttempt, batchTotalDelay>>

\* package tui: the poll task of TUI.startLogTailing and the UI thread
VARIABLES
    tpc,                   \* position of the poll task
    uipc,                  \* position of the UI thread
    ctxDone,               \* t.cancel() has been called
    tickPending,           \* a tick waits in ticker.C
    filterMutex,           \* holders of t.filterMutex
    lastTimestampMutex,    \* holders of t.lastTimestampMutex
    currentTags,           \* t.currentTags
    configTags,            \* t.config.Tags
    startTags,             \* the tag filter the TUI was started with
    tuiLastTimestamp,      \* t.lastTimestamp
    pollTags,              \* the poll task's local currentTags
    pollFrom,              \* its local from
    pollTo,                \* its local to
    pollLogs,              \* len(logs) of its fetch
    pollLatest,            \* latest of its fetch
    changedText,           \* argument of the changed-handler being run
    inFlight,              \* fetches issued and not yet returned
    tuiFetches,            \* fetches issued
    fetchTags,             \* tag filter of the most recent fetch
    lastEntered,           \* whether a text was entered, and the latest one
    updatesQueued,         \* calls of QueueUpdateDraw
    tuiNow                 \* time.Now()

tuiVars == <<tpc, uipc, ctxDone, tickPending, filterMutex, lastTimestampMutex,
             currentTags, configTags, startTags, tuiLastTimestamp, pollTags,
             pollFrom,
             pollTo, pollLogs, pollLatest, changedText, inFlight, tuiFetches,
             fetchTags, lastEntered, updatesQueued, tuiNow>>

\* runTail up to its first request: Config.Validate, NewClient and
\* Client.buildQueryV2
VARIABLES
    qpc,                   \* "loaded", "invalid", "validated", "client",
                           \* "built", "fetched"
    cfgTags,               \* c.config.Tags
    cfgLogLevel,           \* c.config.LogLevel
    cfgLogLevels,          \* c.config.LogLevels
    cfgAPIKey,             \* c.config.APIKey
    cfgAppKey,             \* c.config.AppKey
    cfgOutputFormat,       \* c.config.OutputFormat
    environ,               \* os.Getenv: [DD_API_KEY, DD_APP_KEY]
    cmdErr,                \* the error runTail returned, "" for none
    clientCreated,         \* datadog.NewClient was called
    cmdFetches,            \* requests the command issued
    query                  \* the string buildQueryV2 returned

queryVars == <<qpc, cfgTags, cfgLogLevel, cfgLogLevels, cfgAPIKey, cfgAppKey,
               cfgOutputFormat, environ, cmdErr, clientCreated, cmdFetches,
               query>>

\* The entries the search API serves, by id: those whose timestamp
\* attribute time.Parse rejects, and those for which Formatter.Format
\* returns an error.  No part of the program changes them.
VARIABLES
    malformed,
    unformattable

entryVars == <<malformed, unformattable>>

otherThanTail == <<backoffVars, batchVars, tuiVars, queryVars, entryVars>>
otherThanBackoff == <<tailVars, batchVars, tuiVars, queryVars, entryVars>>
otherThanBatch == <<tailVars, backoffVars, tuiVars, queryVars, entryVars>>
otherThanTui == <<tailVars, backoffVars, batchVars, queryVars, entryVars>>
otherThanQuery == <<tailVars, backoffVars, batchVars, tuiVars, entryVars>>
vars == <<tailVars, backoffVars, batchVars, tuiVars, queryVars, entryVars>>

\* ----------------------------------------------------------- pure helpers

\* from.UTC().Format(time.RFC3339) as the server reads it back: RFC3339 has
\* no fractional seconds, the instant is cut to the whole second.
FormatRFC3339(t) == (t \div Second) * Second

\* ts.Unix()
Unix(t) == t \div Second

\* strings.Contains(err.Error(), "429") on the error fetchLogsV2 builds:
\* "API error: <status line> - <body>" or "failed to execute HTTP request: ..."
IsRateLimitError(e) == e.status = 429 \/ e.body429

\* utils.CalculateBackoff; draw is rand.Float64() in per mille.
CalculateBackoff(n, draw) ==
    LET pow == IF n >= 5 THEN maxBackoffSeconds ELSE 2 ^ n
        backoffMilli == Min(pow, maxBackoffSeconds) * 1000
        \* backoff + backoff * 0.2 * (draw - 0.5), in units of 1/5000000 s
        jittered == backoffMilli * (4500 + draw)
        clamped == Max(1000 * 5000, Min(maxBackoffSeconds * 1000 * 5000, jittered))
    IN  (clamped \div 5000000) * Second

\* ascending timestamp order of the "sort": "timestamp" directive
RECURSIVE SortByTimestamp(_)
SortByTimestamp(S) ==
    IF S = {} THEN <<>>
    ELSE LET first == CHOOSE x \in S : \A y \in S :
                          x.ts < y.ts \/ (x.ts = y.ts /\ x.id <= y.id)
         IN  <<first>> \o SortByTimestamp(S \ {first})

\* The search API: the stored entries of [wireFrom, wireTo), oldest first,
\* at most limit of them.
Search(stored, wireFrom, wireTo, limit) ==
    LET hits == SortByTimestamp({e \in stored : wireFrom <= e.ts /\ e.ts < wireTo})
    IN  SubSeq(hits, 1, Min(Len(hits), limit))

\* fetchLogsV2, line 260: ts, _ := time.Parse(time.RFC3339Nano, ...); the
\* error is dropped and ts is the zero time when the attribute does not parse
ParseTimestamp(d) == IF d.id \in malformed THEN ZeroTime ELSE d.ts

\* fetchLogsV2, lines 257-303: the LogEntry values of a response
RECURSIVE ParseLogs(_)
ParseLogs(data) ==
    IF data = <<>> THEN <<>>
    ELSE <<[ID |-> Head(data).id, Timestamp |-> Unix(ParseTimestamp(Head(data)))]>>
         \o ParseLogs(Tail(data))

\* fetchLogsV2, lines 258-301: latest := the greatest parsed timestamp
RECURSIVE LatestOf(_, _)
LatestOf(data, latest) ==
    IF data = <<>> THEN latest
    ELSE LatestOf(Tail(data),
                  IF ParseTimestamp(Head(data)) > latest
                  THEN ParseTimestamp(Head(data)) ELSE latest)

\* mutant: the output loop starts at the second entry
Formatted_SkipsFirst(logs) ==
    SelectSeq(SubSeq(logs, 2, Len(logs)), LAMBDA l : l.ID \notin unformattable)

\* mutant: the output loop ends at the first formatter error
Formatted_StopsAtError(logs) ==
    LET bad == {i \in 1..Len(logs) : logs[i].ID \in unformattable}
    IN  IF bad = {} THEN logs
        ELSE SubSeq(logs, 1, (CHOOSE i \in bad : \A j \in bad : i <= j) - 1)

\* logs.go lines 179-190 and 408-415: the entries of logs that are printed,
\* those for which formatter.Format returns an error left out
Formatted(logs) == SelectSeq(logs, LAMBDA l : l.ID \notin unformattable)

\* mutant: the head check lets one further attempt through
RetryLimitReached_OffByOne(count, limit) == count > limit

\* line 102
RetryLimitReached(count, limit) == count >= limit

\* mutant: the window always reaches back by searchWindow
FromOf_AlwaysWindow(last, clock, window) == clock - window

\* mutant: the next window starts at lastTimestamp itself
FromOf_NoIncrement(last, clock, window) ==
    IF last = ZeroTime THEN clock - window ELSE last

\* lines 106-112
FromOf(last, clock, window) ==
    IF last = ZeroTime THEN clock - window ELSE last + Nanosecond

\* the response body a successful request made now would carry
ResponseData(f, t) == Search(source, FormatRFC3339(f), FormatRFC3339(t), pageLimit)

\* mutant: the growth of the rate-limit backoff has no ceiling
GrowRateLimitBackoff_NoCap(b) == (b * 3) \div 2

\* line 120
GrowRateLimitBackoff(b) == Min(maxRateLimitBackoff, (b * 3) \div 2)

\* mutant: a rate limit sets the interval to twice the base interval
IntervalAfterRateLimit_DoubleBase(cur) == Min(maxInterval, baseInterval * 2)

\* lines 128-131
IntervalAfterRateLimit(cur) == Min(maxInterval, Max(baseInterval * 2, cur))

\* mutant: the first success resets the rate-limit backoff
ResetRateLimitBackoff_FirstSuccess(b, successes) ==
    IF successes >= 1 THEN initialRateLimitBackoff ELSE b

\* lines 149-151; successes is consecutiveSuccesses after its increment
ResetRateLimitBackoff(b, successes) ==
    IF successes >= rateLimitResetAfter THEN initialRateLimitBackoff ELSE b

\* mutant: the interval shrinks on every fetch that returned entries
AdaptInterval_ShrinksAtOnce(cur, n, successes) ==
    IF n > 0
    THEN Max(minInterval, (cur * 85) \div 100)
    ELSE Min(maxInterval, (cur * 105) \div 100)

\* mutant: the 15% shrink is not floored at minInterval
AdaptInterval_NoFloor(cur, n, successes) ==
    IF n > 0
    THEN IF successes >= intervalShrinkAfter
         THEN (cur * 85) \div 100
         ELSE cur
    ELSE Min(maxInterval, (cur * 105) \div 100)

\* lines 154-176, currentInterval
AdaptInterval(cur, n, successes) ==
    IF n > 0
    THEN IF successes >= intervalShrinkAfter
         THEN Max(minInterval, (cur * 85) \div 100)
         ELSE cur
    ELSE Min(maxInterval, (cur * 105) \div 100)

\* mutant: the shrink factor is computed in integers, w * (9 / 10)
AdaptSearchWindow_IntegerFactor(w, n) ==
    IF n > 0
    THEN IF n >= windowShrinkAtLeast /\ w > searchWindowShrinkAbove
         THEN w * (9 \div 10)
         ELSE w
    ELSE IF w < searchWindowGrowBelow THEN (w * 11) \div 10 ELSE w

\* lines 154-176, searchWindow
AdaptSearchWindow(w, n) ==
    IF n > 0
    THEN IF n >= windowShrinkAtLeast /\ w > searchWindowShrinkAbove
         THEN (w * 9) \div 10
         ELSE w
    ELSE IF w < searchWindowGrowBelow THEN (w * 11) \div 10 ELSE w

\* mutant: latest is adopted only while lastTimestamp is zero
UpdateLastTimestamp_FirstOnly(last, latest, n, clock) ==
    IF latest # ZeroTime
    THEN IF last = ZeroTime THEN latest ELSE last
    ELSE IF n = 0
         THEN IF last = ZeroTime THEN clock - emptyFirstLookback
              ELSE clock - emptyLookback
         ELSE last

\* lines 192-205; clock is time.Now() after the fetch
UpdateLastTimestamp(last, latest, n, clock) ==
    IF latest # ZeroTime
    THEN IF last = ZeroTime \/ latest > last THEN latest ELSE last
    ELSE IF n = 0
         THEN IF last = ZeroTime THEN clock - emptyFirstLookback
              ELSE clock - emptyLookback
         ELSE last

\* strings.Contains(s, c) for a one-character c
Contains(s, c) == \E i \in 1..Len(s) : s[i] = c

\* strings.Split(s, sep) for a one-character sep: one part more than there
\* are separators, empty parts included
RECURSIVE Split(_, _)
Split(s, sep) ==
    IF Contains(s, sep)
    THEN LET i == CHOOSE k \in 1..Len(s) :
                      s[k] = sep /\ \A j \in 1..(k - 1) : s[j] # sep
         IN  <<SubSeq(s, 1, i - 1)>> \o Split(SubSeq(s, i + 1, Len(s)), sep)
    ELSE <<s>>

\* strings.TrimSpace(s)
RECURSIVE TrimSpace(_)
TrimSpace(s) ==
    IF s = <<>> THEN s
    ELSE IF Head(s) = " " THEN TrimSpace(Tail(s))
    ELSE IF s[Len(s)] = " " THEN TrimSpace(SubSeq(s, 1, Len(s) - 1))
    ELSE s

\* time.Parse(time.RFC3339, s) succeeds
IsRFC3339(s) == Len(s) = 1 /\ s[1] \in DOMAIN InstantValue

\* the time.Time it returns
ParseRFC3339(s) == InstantValue[s[1]]

\* mutant: an end equal to the start is accepted
RangeOrdered_NotBefore(f, t) == t >= f

\* logs.go line 382: to.After(from)
RangeOrdered(f, t) == t > f

\* logs.go lines 358-384: the error GetLogsFromTimestamp returns for the
\* timestamp value ts, "" if it accepts it
TimestampError(ts) ==
    IF ~Contains(ts, ",")
    THEN "timestamp must be a time range in format: from,to"
    ELSE LET parts == Split(ts, ",")
         IN  IF Len(parts) # 2 THEN "invalid timestamp range format"
             ELSE IF ~IsRFC3339(TrimSpace(parts[1]))
             THEN "invalid start timestamp format"
             ELSE IF ~IsRFC3339(TrimSpace(parts[2]))
             THEN "invalid end timestamp format"
             ELSE IF ~RangeOrdered(ParseRFC3339(TrimSpace(parts[1])),
                                   ParseRFC3339(TrimSpace(parts[2])))
             THEN "end timestamp must be after start timestamp"
             ELSE ""

\* The search API with pagination: the page the cursor cur points to and the
\* cursor of the page after it (meta.page.after), NoCursor on the last page.
ServePage(chain, cur) ==
    LET idx == IF cur = NoCursor THEN 1 ELSE cur
    IN  [data |-> chain[idx],
         next |-> IF idx < Len(chain) THEN idx + 1 ELSE NoCursor]

\* fetchLogsV2WithPagination, lines 521-567: the LogEntry values of a page
BatchParseLogs(data) == [i \in 1..Len(data) |-> [ID |-> data[i]]]

\* mutant: the page replaces what was accumulated
AppendPage_Replace(all, logs) == logs

\* logs.go line 454
AppendPage(all, logs) == all \o logs

\* mutant: the ceiling is twice as high
BatchRetryLimitReached_Doubled(count) == count >= 2 * batchMaxRetries

\* mutant: the ceiling lets one further retry through
BatchRetryLimitReached_OffByOne(count) == count > batchMaxRetries

\* logs.go line 435
BatchRetryLimitReached(count) == count >= batchMaxRetries

\* logs.go line 440
BatchBackoffDelay(count) == batchBaseDelay * (2 ^ count)

\* mutant: the entries accumulated so far are printed after every page
BatchOutput_Streaming(all, next) == Formatted(all)

\* logs.go lines 397-415 with 457-459 and 471: what GetLogsFromTimestamp
\* prints once a page with next-cursor next has been appended to all
BatchOutput(all, next) == IF next = NoCursor THEN Formatted(all) ELSE <<>>

\* sync.RWMutex: a mutex is the set of tasks holding it for reading and the
\* task holding it for writing.
CanRLock(m) == m.writer = "none"
CanLock(m) == m.writer = "none" /\ m.readers = {}

\* mutant: RLock returns without having taken the mutex
RLock_NotTaken(m, task) == m

\* mutant: RUnlock returns with the mutex still held
RUnlock_NotReleased(m, task) == m

RLock(m, task) == [m EXCEPT !.readers = @ \cup {task}]
RUnlock(m, task) == [m EXCEPT !.readers = @ \ {task}]
Lock(m, task) == [m EXCEPT !.writer = task]
Unlock(m, task) == [m EXCEPT !.writer = "none"]

\* strings.Join(parts, sep)
RECURSIVE Join(_, _)
Join(parts, sep) ==
    IF parts = <<>> THEN <<>>
    ELSE IF Len(parts) = 1 THEN parts[1]
    ELSE parts[1] \o sep \o Join(Tail(parts), sep)

\* the parts of a comma-separated setting, trimmed, the empty ones left out
\* (logs.go lines 579-584, config.go lines 66-74)
RECURSIVE TrimmedParts(_)
TrimmedParts(parts) ==
    IF parts = <<>> THEN <<>>
    ELSE LET part == TrimSpace(Head(parts))
         IN  (IF part = <<>> THEN <<>> ELSE <<part>>) \o TrimmedParts(Tail(parts))

\* config.go lines 75-84: level is one of the valid level names
IsValidLevel(level) == Len(level) = 1 /\ level[1] \in ValidLevels

\* config.go lines 64-90: Validate accepts the level setting
LevelsAccepted(level) ==
    \A i \in 1..Len(TrimmedParts(Split(level, ","))) :
        IsValidLevel(TrimmedParts(Split(level, ","))[i])

\* Validate without the check of the output format
ValidateError_FormatUnchecked(apiKey, appKey, env, format, level) ==
    IF apiKey = "" /\ env.DD_API_KEY = ""
    THEN "API key not set (DD_API_KEY)"
    ELSE IF appKey = "" /\ env.DD_APP_KEY = ""
    THEN "application key not set (DD_APP_KEY)"
    ELSE IF ~LevelsAccepted(level)
    THEN "invalid log level"
    ELSE ""

\* config.go lines 35-93: the error Validate returns, "" for nil; apiKey and
\* appKey are the fields, env the environment
ValidateError(apiKey, appKey, env, format, level) ==
    IF apiKey = "" /\ env.DD_API_KEY = ""
    THEN "API key not set (DD_API_KEY)"
    ELSE IF appKey = "" /\ env.DD_APP_KEY = ""
    THEN "application key not set (DD_APP_KEY)"
    ELSE IF format # "json" /\ format # "text"
    THEN "invalid output format"
    ELSE IF ~LevelsAccepted(level)
    THEN "invalid log level"
    ELSE ""

\* config.go lines 37-52: a key field after Validate has looked at it
KeyOrEnv(key, envValue) == IF key = "" THEN envValue ELSE key

\* config.go lines 64-90: c.LogLevels after a Validate that returned nil
ParseLogLevels(level) ==
    IF level = <<>> THEN <<>> ELSE TrimmedParts(Split(level, ","))

\* fmt.Sprintf("status:%s", level)
StatusClause(level) == <<"status:">> \o level

\* logs.go lines 576-586: the conditions the tag filter contributes
TagConditions(tags) ==
    IF tags = <<>> THEN <<>> ELSE TrimmedParts(Split(tags, ","))

\* logs.go lines 588-603: the conditions the level setting contributes
LevelConditions(levels, level) ==
    IF Len(levels) > 0
    THEN IF Len(levels) = 1
         THEN <<StatusClause(levels[1])>>
         ELSE << <<"(">>
                 \o Join([i \in 1..Len(levels) |-> StatusClause(levels[i])],
                         <<" ", "OR", " ">>)
                 \o <<")">> >>
    ELSE IF level # <<>> THEN <<StatusClause(level)>> ELSE <<>>

\* logs.go lines 575-606
buildQueryV2(tags, levels, level) ==
    Join(TagConditions(tags) \o LevelConditions(levels, level), <<" ">>)

\* ------------------------------------------------------------------- Init
\* lines 90-99; configured is c.config.GetRetryCount()
InitWith(configured) ==
    /\ pc = "loop"
    /\ err = ""
    /\ maxRetries = configured
    /\ lastTimestamp = ZeroTime
    /\ retryCount = 0
    /\ currentInterval = baseInterval
    /\ rateLimitBackoff = initialRateLimitBackoff
    /\ consecutiveSuccesses = 0
    /\ searchWindow = initialSearchWindow
    /\ from = ZeroTime
    /\ to = ZeroTime
    /\ output = <<>>
    /\ now = StartTime
    /\ source = {}
    /\ fetches = 0
    /\ rateLimits = 0
    /\ failures = 0
    /\ arrived = {}
    /\ lastResult = "none"
    /\ lastStatus429 = FALSE
    /\ lastCount = 0
    /\ okTo = ZeroTime
    /\ okLatest = ZeroTime
    /\ prevOk = [to |-> ZeroTime, latest |-> ZeroTime]
    /\ adopted = ZeroTime
    /\ queried = {}

\* every entry is well formed
EntriesIdle == malformed = {} /\ unformattable = {}

\* no call of CalculateBackoff on its own
BackoffIdle ==
    /\ cbRetryCount = 0
    /\ cbDraw = 0
    /\ cbCalled = FALSE
    /\ cbResult = 0

\* logs.go lines 423-428 and the state before GetLogsFromTimestamp has read
\* its input
BatchInitWith(value, chain) ==
    /\ bpc = "start"
    /\ timestamp = value
    /\ pages = chain
    /\ batchFrom = ZeroTime
    /\ batchTo = ZeroTime
    /\ cursor = NoCursor
    /\ allLogs = <<>>
    /\ batchRetryCount = 0
    /\ batchErr = ""
    /\ batchOutput = <<>>
    /\ batchFetches = 0
    /\ batchRateLimits = 0
    /\ batchPagesFetched = 0
    /\ batchDelays = 0
    /\ batchLastNext = NoCursor
    /\ batchRequested = NoCursor
    /\ batchAttempt = 0
    /\ batchTotalDelay = 0

\* batch mode not run
BatchIdle == BatchInitWith(<<>>, << <<>> >>)

\* formatter.go lines 445-456 (New) and 672-675 (Run): the TUI started
\* with the tag filter tags
TuiInitWith(tags) ==
    /\ tpc = "select"
    /\ uipc = "idle"
    /\ ctxDone = FALSE
    /\ tickPending = FALSE
    /\ filterMutex = [readers |-> {}, writer |-> "none"]
    /\ lastTimestampMutex = [readers |-> {}, writer |-> "none"]
    /\ currentTags = <<>>
    /\ configTags = tags
    /\ startTags = tags
    /\ tuiLastTimestamp = ZeroTime
    /\ pollTags = <<>>
    /\ pollFrom = ZeroTime
    /\ pollTo = ZeroTime
    /\ pollLogs = 0
    /\ pollLatest = ZeroTime
    /\ changedText = <<>>
    /\ inFlight = 0
    /\ tuiFetches = 0
    /\ fetchTags = <<>>
    /\ lastEntered = [any |-> FALSE, text |-> <<>>]
    /\ updatesQueued = 0
    /\ tuiNow = StartTime

\* TUI mode not run
TuiIdle == TuiInitWith(<<>>)

\* the configuration as loaded, with the tag filter tags and the level
\* setting level (cmd/tail.go lines 84-89)
QueryInitWith(tags, level, api, app, format) ==
    /\ qpc = "loaded"
    /\ cfgTags = tags
    /\ cfgLogLevel = level
    /\ cfgLogLevels = <<>>
    /\ cfgAPIKey = api.cfg
    /\ cfgAppKey = app.cfg
    /\ cfgOutputFormat = format
    /\ environ = [DD_API_KEY |-> api.env, DD_APP_KEY |-> app.env]
    /\ cmdErr = ""
    /\ clientCreated = FALSE
    /\ cmdFetches = 0
    /\ query = <<>>

\* no query built
QueryIdle ==
    QueryInitWith(<<>>, <<>>, [cfg |-> "key", env |-> ""],
                  [cfg |-> "key", env |-> ""], "text")

Init ==
    /\ \E configured \in RetryCounts : InitWith(configured)
    /\ BackoffIdle
    /\ EntriesIdle
    /\ BatchIdle
    /\ TuiIdle
    /\ QueryIdle

\* ---------------------------------------------------------------- actions

\* The source stores the burst b.
Arrive(b) ==
    /\ pc = "loop"
    /\ b \notin arrived
    /\ arrived' = arrived \cup {b}
    /\ source' = source \cup
         {[id |-> Cardinality(source) + i, ts |-> now - b.age - (b.n - i)] : i \in 1..b.n}
    /\ UNCHANGED <<pc, err, maxRetries, lastTimestamp, retryCount,
                   currentInterval, rateLimitBackoff, consecutiveSuccesses,
                   searchWindow, from, to, output, now, fetches, rateLimits,
                   failures, lastResult, lastStatus429, lastCount, okTo,
                   okLatest, prevOk, adopted, queried>>
    /\ UNCHANGED otherThanTail

\* lines 102-104
ReturnMaxRetries ==
    /\ pc = "loop"
    /\ RetryLimitReached(retryCount, maxRetries)
    /\ pc' = "returned"
    /\ err' = "maximum retry count reached"
    /\ UNCHANGED <<maxRetries, lastTimestamp, retryCount, currentInterval,
                   rateLimitBackoff, consecutiveSuccesses, searchWindow, from,
                   to, output, now, source, fetches, rateLimits, failures,
                   arrived, lastResult, lastStatus429, lastCount, okTo,
                   okLatest, prevOk, adopted, queried>>
    /\ UNCHANGED otherThanTail

\* lines 106-115: the window and the request, common to every outcome
IssueFetch ==
    /\ pc = "loop"
    /\ ~RetryLimitReached(retryCount, maxRetries)
    /\ fetches < MaxFetches
    /\ from' = FromOf(lastTimestamp, now, searchWindow)
    /\ to' = now
    /\ fetches' = fetches + 1
    /\ queried' = queried \cup
         {e.id : e \in {x \in source : FormatRFC3339(from') <= x.ts
                                        /\ x.ts < FormatRFC3339(to')}}
    /\ UNCHANGED otherThanTail

\* mutant: a rate-limited fetch consumes a retry
FetchRateLimited_ConsumesRetry(e, latency, draw) ==
    /\ IssueFetch
    /\ IsRateLimitError(e)
    /\ rateLimits' = rateLimits + 1
    /\ retryCount' = retryCount + 1
    /\ LET backoff == GrowRateLimitBackoff(rateLimitBackoff)
           jitter == ((backoff \div 10) * draw) \div 1000
           waitTime == backoff + jitter
       IN  /\ rateLimitBackoff' = backoff
           /\ now' = now + latency + waitTime
    /\ currentInterval' = IntervalAfterRateLimit(currentInterval)
    /\ consecutiveSuccesses' = 0
    /\ lastResult' = "ratelimit"
    /\ lastStatus429' = (e.status = 429)
    /\ lastCount' = 0
    /\ UNCHANGED <<pc, err, maxRetries, lastTimestamp, searchWindow, output,
                   source, failures, arrived, okTo, okLatest, prevOk, adopted>>

\* lines 116-134: the fetch fails and the error text contains "429"
FetchRateLimited(e, latency, draw) ==
    /\ IssueFetch
    /\ IsRateLimitError(e)
    /\ rateLimits' = rateLimits + 1
    /\ LET backoff == GrowRateLimitBackoff(rateLimitBackoff)
           jitter == ((backoff \div 10) * draw) \div 1000
           waitTime == backoff + jitter
       IN  /\ rateLimitBackoff' = backoff
           /\ now' = now + latency + waitTime
    /\ currentInterval' = IntervalAfterRateLimit(currentInterval)
    /\ consecutiveSuccesses' = 0
    /\ lastResult' = "ratelimit"
    /\ lastStatus429' = (e.status = 429)
    /\ lastCount' = 0
    /\ UNCHANGED <<pc, err, maxRetries, lastTimestamp, retryCount,
                   searchWindow, output, source, failures, arrived,
                   okTo, okLatest, prevOk, adopted>>

\* mutant: a fetch error ends the run of successes
FetchFailed_ResetsSuccesses(e, latency, draw) ==
    /\ IssueFetch
    /\ ~IsRateLimitError(e)
    /\ failures' = failures + 1
    /\ retryCount' = retryCount + 1
    /\ consecutiveSuccesses' = 0
    /\ now' = now + latency + CalculateBackoff(retryCount', draw)
    /\ lastResult' = "error"
    /\ lastStatus429' = (e.status = 429)
    /\ lastCount' = 0
    /\ UNCHANGED <<pc, err, maxRetries, lastTimestamp, currentInterval,
                   rateLimitBackoff, searchWindow, output, source, rateLimits,
                   arrived, okTo, okLatest, prevOk, adopted>>

\* lines 116, 136-141: any other fetch error
FetchFailed(e, latency, draw) ==
    /\ IssueFetch
    /\ ~IsRateLimitError(e)
    /\ failures' = failures + 1
    /\ retryCount' = retryCount + 1
    /\ now' = now + latency + CalculateBackoff(retryCount', draw)
    /\ lastResult' = "error"
    /\ lastStatus429' = (e.status = 429)
    /\ lastCount' = 0
    /\ UNCHANGED <<pc, err, maxRetries, lastTimestamp, currentInterval,
                   rateLimitBackoff, consecutiveSuccesses, searchWindow,
                   output, source, rateLimits, arrived, okTo, okLatest,
                   prevOk, adopted>>

\* lines 144-206: the fetch succeeds
FetchSucceeded(latency) ==
    /\ IssueFetch
    /\ LET data == ResponseData(from', to')
           logs == ParseLogs(data)
           latest == LatestOf(data, ZeroTime)
       IN  /\ retryCount' = 0
           /\ consecutiveSuccesses' = consecutiveSuccesses + 1
           /\ rateLimitBackoff' =
                ResetRateLimitBackoff(rateLimitBackoff, consecutiveSuccesses')
           /\ currentInterval' =
                AdaptInterval(currentInterval, Len(logs), consecutiveSuccesses')
           /\ searchWindow' = AdaptSearchWindow(searchWindow, Len(logs))
           /\ output' = output \o Formatted(logs)
           /\ lastTimestamp' =
                UpdateLastTimestamp(lastTimestamp, latest, Len(logs), now + latency)
           /\ now' = now + latency + currentInterval'
           /\ lastResult' = "ok"
           /\ lastStatus429' = FALSE
           /\ lastCount' = Len(logs)
           /\ okTo' = to'
           /\ okLatest' = latest
           /\ prevOk' = [to |-> okTo, latest |-> okLatest]
           /\ adopted' = IF latest # ZeroTime /\ latest > lastTimestamp
                         THEN latest ELSE ZeroTime
    /\ UNCHANGED <<pc, err, maxRetries, source, rateLimits, failures, arrived>>

Next ==
    \/ \E b \in Bursts : Arrive(b)
    \/ ReturnMaxRetries
    \/ \E e \in FetchErrors, l \in Latencies, d \in IntnDraws :
          /\ rateLimits + failures < MaxErrors
          /\ FetchRateLimited(e, l, d)
    \/ \E e \in FetchErrors, l \in Latencies, d \in Float64Draws :
          /\ rateLimits + failures < MaxErrors
          /\ FetchFailed(e, l, d)
    \/ \E l \in Latencies : FetchSucceeded(l)

Spec == Init /\ [][Next]_vars

TypeOK ==
    /\ pc \in {"loop", "returned"}
    /\ retryCount \in 0..(maxRetries + 1)
    /\ fetches \in 0..MaxFetches
    /\ arrived \subseteq Bursts
    /\ rateLimits + failures <= MaxErrors

\* ----------------------------------------------------------------- claims
Emitted(id) == \E i \in 1..Len(output) : output[i].ID = id
FetchStep == fetches' = fetches + 1
SuccessStep == FetchStep /\ lastResult' = "ok"

\* C1: in tail mode no entry of the source is printed more than once,
\* whatever the sequence of fetch outcomes.
C1_NoEntryEmittedTwice ==
    \A i, j \in 1..Len(output) : i # j => output[i].ID # output[j].ID

\* C2: once lastTimestamp is non-zero, no step of the tail loop decreases it.
C2_LastTimestampNeverDecreases ==
    [][lastTimestamp # ZeroTime => lastTimestamp' >= lastTimestamp]_vars

\* C3: a successful fetch that returns zero entries leaves lastTimestamp
\* later than it was (non-zero if it was zero).
C3_EmptyFetchAdvancesCursor ==
    [][(SuccessStep /\ lastCount' = 0) => lastTimestamp' > lastTimestamp]_vars

\* C4: after a successful fetch whose latest L was after lastTimestamp, every
\* fetch issued until the next successful one uses from = L + 1ns, whether
\* or not rate-limited or failed attempts lie in between.
C4_NextFromIsLatestPlusOne ==
    [][(FetchStep /\ adopted # ZeroTime) => from' = adopted + Nanosecond]_vars

\* witness of C4: a fetch that followed a rate-limited and a failed attempt
\* was issued from L + 1ns
C4_Witness ==
    /\ adopted # ZeroTime
    /\ rateLimits >= 1
    /\ lastResult = "error"
    /\ from = adopted + Nanosecond

\* C5 as stated: of two consecutive successful fetches with strictly
\* increasing latest timestamps the later window starts at or after the end
\* of the earlier one, from_k+1 >= to_k.
C5_WindowsDoNotOverlap ==
    [][(SuccessStep /\ okLatest # ZeroTime /\ okLatest' > okLatest)
          => from' >= okTo]_vars

\* C5 amended: of two consecutive successful fetches with strictly
\* increasing latest timestamps the later window starts strictly after the
\* latest timestamp L_k the earlier fetch reported, from_k+1 > L_k; it may
\* start before to_k.
C5_NextWindowStartsAfterLatest ==
    [][(SuccessStep /\ okLatest # ZeroTime /\ okLatest' > okLatest)
          => from' > okLatest]_vars

\* witness of C5: two consecutive successful fetches with increasing latest
\* timestamps, the later one starting after L_k and inside the earlier window
C5_Witness ==
    /\ lastResult = "ok"
    /\ prevOk.latest # ZeroTime
    /\ okLatest > prevOk.latest
    /\ from > prevOk.latest
    /\ from < prevOk.to

\* C6: an entry that was stored when a window containing its timestamp was
\* queried is emitted once fetches succeed; the one exception is an entry
\* with the very timestamp of the last entry seen.  Stated on finite runs:
\* after a successful fetch every such entry has been emitted.
C6_QueriedEntriesAreEmitted ==
    lastResult = "ok" =>
        \A e \in source :
            e.id \in queried => (Emitted(e.id) \/ e.ts = lastTimestamp)

\* C7: minInterval <= currentInterval <= maxInterval in every state.
C7_IntervalWithinBounds ==
    minInterval <= currentInterval /\ currentInterval <= maxInterval

\* witness of C7: the 15% shrink has hit the floor
C7_Witness ==
    /\ currentInterval = minInterval
    /\ consecutiveSuccesses > intervalShrinkAfter

\* C8: searchWindow is strictly positive in every state.
C8_SearchWindowPositive == searchWindow > 0

\* witness of C8: the window was shrunk by a fetch of five entries and then
\* grown by an empty fetch
C8_Witness ==
    /\ searchWindow # initialSearchWindow
    /\ searchWindow = (((initialSearchWindow * 9) \div 10) * 11) \div 10
    /\ lastResult = "ok"
    /\ lastCount = 0

\* C9: (with maxRetries >= 1) the loop ends only by returning the error
\* "maximum retry count reached", only with retryCount = maxRetries, which
\* only fetches that failed otherwise than by rate limiting bring about; and
\* with retryCount at maxRetries it issues no further fetch.
C9_TerminatesOnlyAtMaxRetries ==
    [][/\ (pc = "loop" /\ pc' = "returned") =>
             /\ maxRetries >= 1
             /\ retryCount = maxRetries
             /\ err' = "maximum retry count reached"
             /\ lastResult = "error"
             /\ failures >= maxRetries
       /\ retryCount >= maxRetries => ~FetchStep
       /\ pc = "returned" => pc' = "returned"]_vars

\* witness of C9: the loop returned after successful fetches
C9_Witness ==
    /\ pc = "returned"
    /\ retryCount = maxRetries
    /\ consecutiveSuccesses > 0

\* C17: a failed fetch is handled as rate limited (dedicated backoff,
\* retryCount untouched) exactly if the HTTP status of the response was 429;
\* every other failure increments retryCount.
C17_RateLimitPathIffStatus429 ==
    [][(FetchStep /\ lastResult' # "ok") =>
          /\ (lastResult' = "ratelimit") <=> lastStatus429'
          /\ (retryCount' = retryCount + 1) <=> ~lastStatus429']_vars

\* C24: the lower bound sent with a tail fetch that follows an observed
\* entry with timestamp T is strictly later than T: the one-nanosecond
\* increment survives the encoding of the request.
C24_SentLowerBoundAfterLatest ==
    [][(FetchStep /\ adopted # ZeroTime) => FormatRFC3339(from') > adopted]_vars

\* C25: retryCount starts at 0, every successful fetch sets it to 0, every
\* fetch error that is not a rate limit adds exactly one, and no other step
\* changes it (a rate limit neither adds nor resets): at every loop head it
\* is the number of such errors since the most recent success.
C25_RetryCountCountsFailures ==
    /\ retryCount = 0
    /\ [][/\ SuccessStep => retryCount' = 0
          /\ (FetchStep /\ lastResult' = "error") => retryCount' = retryCount + 1
          /\ ~(FetchStep /\ lastResult' \in {"ok", "error"}) =>
                retryCount' = retryCount]_vars

\* witness of C25: a rate limit after a failure has kept the count
C25_Witness ==
    /\ lastResult = "ratelimit"
    /\ failures = 1
    /\ rateLimits = 1
    /\ retryCount = 1

\* C26: a rate-limited fetch leaves retryCount, lastTimestamp and
\* searchWindow unchanged and emits no entry, and the fetch that follows it
\* queries from the lower bound of the rate-limited one.
C26_RateLimitRetriesSameWindow ==
    [][/\ (FetchStep /\ lastResult' = "ratelimit") =>
             /\ retryCount' = retryCount
             /\ lastTimestamp' = lastTimestamp
             /\ searchWindow' = searchWindow
             /\ output' = output
       /\ (FetchStep /\ lastResult = "ratelimit") => from' = from]_vars

\* C28: right after a rate-limited fetch currentInterval is
\* min(maxInterval, max(2 * baseInterval, its value before)), so at least 6
\* seconds, and consecutiveSuccesses is 0.
C28_IntervalAfterRateLimit ==
    [][(FetchStep /\ lastResult' = "ratelimit") =>
          /\ currentInterval' =
                Min(30 * Second, Max(2 * (3 * Second), currentInterval))
          /\ currentInterval' >= 6 * Second
          /\ consecutiveSuccesses' = 0]_vars

\* witness of C28: the interval before the rate limit was above 6 seconds
\* and was kept
C28_Witness ==
    /\ lastResult = "ratelimit"
    /\ consecutiveSuccesses = 0
    /\ currentInterval > 6 * Second

\* C29: a fetch error that is not a rate limit and brings retryCount to
\* maxRetries is followed by no backoff sleep (the loop ends at once); the
\* backoff sleep is taken only while retryCount is below maxRetries after
\* the increment.
C29_NoSleepBeforeFatalExit ==
    [][(FetchStep /\ lastResult' = "error") =>
          \E l \in Latencies :
              IF retryCount' >= maxRetries
              THEN now' = now + l
              ELSE now' > now + l]_vars

\* C30: a successful fetch returns rateLimitBackoff to 5 seconds exactly
\* when consecutiveSuccesses, after its increment, is at least 3; with fewer
\* successes since the last rate limit the grown value stays, and the next
\* rate limit grows it from there.
C30_BackoffResetAfterThreeSuccesses ==
    [][/\ SuccessStep =>
             /\ consecutiveSuccesses' = consecutiveSuccesses + 1
             /\ rateLimitBackoff' =
                   IF consecutiveSuccesses' >= 3
                   THEN 5 * Second ELSE rateLimitBackoff
       /\ (FetchStep /\ lastResult' = "ratelimit") =>
             rateLimitBackoff' =
                 Min(60 * Second, (rateLimitBackoff * 3) \div 2)]_vars

\* witness of C30: two successes after a rate limit have kept the grown
\* backoff, and the next rate limit has grown it further
C30_Witness ==
    /\ fetches = 4
    /\ rateLimits = 2
    /\ lastResult = "ratelimit"
    /\ currentInterval = ((((6 * Second) * 105) \div 100) * 105) \div 100
    /\ rateLimitBackoff = ((((5 * Second) * 3) \div 2) * 3) \div 2

\* C31: currentInterval decreases only on a successful fetch that returned
\* at least one entry while consecutiveSuccesses, after its increment, is at
\* least 5, and then to 85% of its value, not below minInterval; so after a
\* rate limit it stays at 6 seconds or more until 5 fetches have succeeded.
C31_IntervalShrinksOnlyAfterFiveSuccesses ==
    /\ [][currentInterval' < currentInterval =>
             /\ SuccessStep
             /\ lastCount' > 0
             /\ consecutiveSuccesses' >= 5
             /\ currentInterval' =
                   Max(2 * Second, (currentInterval * 85) \div 100)]_vars
    /\ []((rateLimits > 0 /\ consecutiveSuccesses < 5) =>
             currentInterval >= 6 * Second)

\* witness of C31: the fifth success after a rate limit has shrunk the
\* interval below 6 seconds
C31_Witness ==
    /\ rateLimits = 1
    /\ consecutiveSuccesses = 5
    /\ lastResult = "ok"
    /\ currentInterval = ((6 * Second) * 85) \div 100

\* C32: a successful fetch prints every entry of its response once, in the
\* order of the response, within the iteration (before the sleep and the next
\* fetch), after everything printed before; no other step prints.
C32_ResponseEmittedInOrder ==
    [][IF SuccessStep
       THEN LET data == ResponseData(from', to')
            IN  /\ Len(output') = Len(output) + Len(data)
                /\ SubSeq(output', 1, Len(output)) = output
                /\ \A i \in 1..Len(data) : output'[Len(output) + i].ID = data[i].id
                /\ lastCount' = Len(data)
       ELSE output' = output]_vars

\* witness of C32: two fetches have printed, the second one five entries
C32_Witness ==
    /\ lastResult = "ok"
    /\ lastCount = 5
    /\ Len(output) >= 6

BatchInit ==
    /\ InitWith(DefaultRetryCount)
    /\ BackoffIdle
    /\ EntriesIdle
    /\ TuiIdle
    /\ QueryIdle
    /\ \E value \in TimestampStrings, chain \in PageChains :
          BatchInitWith(value, chain)

\* logs.go lines 358-384: the timestamp value is rejected
RejectTimestamp ==
    /\ bpc = "start"
    /\ TimestampError(timestamp) # ""
    /\ bpc' = "failed"
    /\ batchErr' = TimestampError(timestamp)
    /\ UNCHANGED <<timestamp, pages, batchFrom, batchTo, cursor, allLogs,
                   batchRetryCount, batchOutput, batchFetches,
                   batchRateLimits, batchPagesFetched, batchDelays,
                   batchLastNext, batchRequested, batchAttempt,
                   batchTotalDelay>>
    /\ UNCHANGED otherThanBatch

\* logs.go lines 358-397 and 423-428: the range is accepted
AcceptTimestamp ==
    /\ bpc = "start"
    /\ TimestampError(timestamp) = ""
    /\ bpc' = "fetch"
    /\ LET parts == Split(timestamp, ",")
       IN  /\ batchFrom' = ParseRFC3339(TrimSpace(parts[1]))
           /\ batchTo' = ParseRFC3339(TrimSpace(parts[2]))
    /\ UNCHANGED <<timestamp, pages, cursor, allLogs, batchRetryCount,
                   batchErr, batchOutput, batchFetches, batchRateLimits,
                   batchPagesFetched, batchDelays, batchLastNext,
                   batchRequested, batchAttempt, batchTotalDelay>>
    /\ UNCHANGED otherThanBatch

\* logs.go line 431: the request, common to every outcome
BatchIssueFetch ==
    /\ bpc = "fetch"
    /\ batchFetches' = batchFetches + 1
    /\ batchRequested' = cursor
    /\ UNCHANGED <<timestamp, pages, batchFrom, batchTo>>
    /\ UNCHANGED otherThanBatch

\* mutant: a fetched page leaves the retry counter as it is
BatchPageFetched_KeepsRetryCount ==
    /\ BatchIssueFetch
    /\ LET response == ServePage(pages, cursor)
           logs == BatchParseLogs(response.data)
       IN  /\ allLogs' = AppendPage(allLogs, logs)
           /\ batchPagesFetched' = batchPagesFetched + 1
           /\ batchLastNext' = response.next
           /\ batchOutput' = BatchOutput(allLogs', response.next)
           /\ IF response.next = NoCursor
              THEN /\ bpc' = "done"
                   /\ UNCHANGED <<cursor, batchDelays>>
              ELSE /\ bpc' = "fetch"
                   /\ cursor' = response.next
                   /\ batchDelays' = batchDelays + 1
    /\ UNCHANGED <<batchRetryCount, batchErr, batchRateLimits, batchAttempt,
                   batchTotalDelay>>

\* logs.go lines 452-469 and, after the last page, 471 and 397-418
BatchPageFetched ==
    /\ BatchIssueFetch
    /\ LET response == ServePage(pages, cursor)
           logs == BatchParseLogs(response.data)
       IN  /\ batchRetryCount' = 0
           /\ allLogs' = AppendPage(allLogs, logs)
           /\ batchPagesFetched' = batchPagesFetched + 1
           /\ batchLastNext' = response.next
           /\ batchOutput' = BatchOutput(allLogs', response.next)
           /\ IF response.next = NoCursor
              THEN /\ bpc' = "done"
                   /\ UNCHANGED <<cursor, batchDelays>>
              ELSE /\ bpc' = "fetch"
                   /\ cursor' = response.next
                   /\ batchDelays' = batchDelays + 1
    /\ UNCHANGED <<batchErr, batchRateLimits, batchAttempt, batchTotalDelay>>

\* logs.go lines 432-448: the error text contains "429"
BatchRateLimited(e, draw) ==
    /\ BatchIssueFetch
    /\ IsRateLimitError(e)
    /\ batchRateLimits' = batchRateLimits + 1
    /\ batchAttempt' = batchRetryCount
    /\ IF BatchRetryLimitReached(batchRetryCount)
       THEN /\ bpc' = "failed"
            /\ batchErr' = "maximum retry count reached due to rate limiting"
            /\ UNCHANGED <<batchRetryCount, batchTotalDelay>>
       ELSE /\ LET backoffDelay == BatchBackoffDelay(batchRetryCount)
                   jitter == ((backoffDelay \div 4) * draw) \div 1000
               IN  batchTotalDelay' = backoffDelay + jitter
            /\ batchRetryCount' = batchRetryCount + 1
            /\ UNCHANGED <<bpc, batchErr>>
    /\ UNCHANGED <<cursor, allLogs, batchOutput, batchPagesFetched,
                   batchDelays, batchLastNext>>

\* logs.go lines 432 and 449: any other fetch error
BatchFetchFailed(e) ==
    /\ BatchIssueFetch
    /\ ~IsRateLimitError(e)
    /\ bpc' = "failed"
    /\ batchErr' = "failed to fetch logs"
    /\ UNCHANGED <<cursor, allLogs, batchRetryCount, batchOutput,
                   batchRateLimits, batchPagesFetched, batchDelays,
                   batchLastNext, batchAttempt, batchTotalDelay>>

BatchNext ==
    \/ RejectTimestamp
    \/ AcceptTimestamp
    \/ BatchPageFetched
    \/ \E e \in FetchErrors, d \in IntnDraws : BatchRateLimited(e, d)
    \/ \E e \in FetchErrors : BatchFetchFailed(e)

SpecBatch == BatchInit /\ [][BatchNext]_vars

\* the timestamp value is two instants separated by one comma, spaces apart,
\* the second instant after the first
WellFormedRange(ts) ==
    LET words == SelectSeq(ts, LAMBDA c : c # " ")
    IN  /\ Len(words) = 3
        /\ words[1] \in DOMAIN InstantValue
        /\ words[2] = ","
        /\ words[3] \in DOMAIN InstantValue
        /\ InstantValue[words[3]] > InstantValue[words[1]]

\* the entries of the first n pages, in page order
RECURSIVE PagesUpTo(_, _)
PagesUpTo(chain, n) ==
    IF n = 0 THEN <<>>
    ELSE PagesUpTo(chain, n - 1) \o BatchParseLogs(chain[n])

\* C12: a timestamp value that is not two comma-separated RFC3339 instants
\* (spaces around them aside), or whose end is not strictly after its start,
\* ends batch mode with an error, without any fetch and without any output.
C12_MalformedRangeRejected ==
    (bpc # "start" /\ ~WellFormedRange(timestamp)) =>
        /\ bpc = "failed"
        /\ batchErr # ""
        /\ batchFetches = 0
        /\ batchOutput = <<>>

\* witness of C12: a range whose end equals its start was rejected
C12_Witness ==
    /\ timestamp = <<"2024-01-15T10:00:00Z", ",", "2024-01-15T10:00:00Z">>
    /\ bpc = "failed"
    /\ batchFetches = 0

\* C13: without errors a source of N pages is retrieved by exactly N
\* fetches, the first without cursor and each later one with the cursor the
\* page before it returned; the result is the pages concatenated in page
\* order, nothing twice and nothing missing; N-1 inter-page delays are taken.
C13_PagesRetrievedInOrder ==
    batchRateLimits = 0 =>
        /\ bpc = "fetch" => cursor = batchLastNext
        /\ batchFetches >= 1 =>
              batchRequested = (IF batchFetches = 1 THEN NoCursor ELSE batchFetches)
        /\ bpc \in {"fetch", "done"} =>
              /\ batchFetches = batchPagesFetched
              /\ allLogs = PagesUpTo(pages, batchPagesFetched)
              /\ \A i, j \in 1..Len(allLogs) : i # j => allLogs[i].ID # allLogs[j].ID
        /\ bpc = "done" =>
              /\ batchFetches = Len(pages)
              /\ batchDelays = Len(pages) - 1
              /\ batchOutput = PagesUpTo(pages, Len(pages))

\* witness of C13: three pages retrieved without error
C13_Witness ==
    /\ bpc = "done"
    /\ Len(pages) = 3
    /\ batchRateLimits = 0
    /\ batchFetches = 3
    /\ batchDelays = 2
    /\ Len(batchOutput) = 6

\* C14: a rate-limit response met with retry counter n < 5 is followed by a
\* sleep of at least 2s * 2^n and less than 125% of that, and by a retry of
\* the same cursor with the counter at n + 1; met with the counter at 5 it
\* ends the batch with an error.
C14_BatchRateLimitBackoff ==
    [][batchRateLimits' = batchRateLimits + 1 =>
          IF batchRetryCount < batchMaxRetries
          THEN /\ bpc' = "fetch"
               /\ batchRetryCount' = batchRetryCount + 1
               /\ cursor' = cursor
               /\ batchTotalDelay' >= batchBaseDelay * (2 ^ batchRetryCount)
               /\ 4 * (batchTotalDelay' - batchBaseDelay * (2 ^ batchRetryCount))
                     < batchBaseDelay * (2 ^ batchRetryCount)
          ELSE /\ bpc' = "failed"
               /\ batchErr' # ""]_vars

\* witness of C14: the sixth rate-limit response in a row ended the batch
\* after a fifth sleep of 32s or more
C14_Witness ==
    /\ bpc = "failed"
    /\ batchAttempt = batchMaxRetries
    /\ batchRetryCount = batchMaxRetries
    /\ batchTotalDelay > 32 * Second

\* C15: entries are printed only when the last page has been retrieved; a
\* batch that failed has printed none, whatever it had fetched.
C15_BatchAllOrNothing ==
    /\ batchOutput # <<>> =>
          /\ bpc = "done"
          /\ batchLastNext = NoCursor
          /\ batchPagesFetched = Len(pages)
          /\ batchOutput = allLogs
    /\ bpc = "failed" => batchOutput = <<>>

\* witness of C15: the batch failed after two pages and printed nothing
C15_Witness ==
    /\ bpc = "failed"
    /\ batchPagesFetched = 2
    /\ Len(allLogs) = 4
    /\ batchOutput = <<>>

\* C16: a fetch error ends an engine only when the engine's retry ceiling
\* has been reached; here for the batch engine.
C16_FetchErrorEndsOnlyAtCeiling ==
    [][(batchFetches' = batchFetches + 1 /\ bpc' = "failed")
          => batchRetryCount >= batchMaxRetries]_vars

\* The batch engine keeps running: a step it can take is taken.
FairSpecBatch == SpecBatch /\ WF_vars(BatchNext)

\* C38: the batch engine ends whenever the cursor chain of the source is
\* finite: every fetch advances the cursor (or ends the batch at the last
\* page), or is a rate limit counted against the ceiling of 5 retries in a
\* row, or is another error that ends the batch; there are at most 6 fetches
\* per page.
C38_BatchTerminates ==
    /\ <>(bpc \in {"done", "failed"})
    /\ [](batchFetches <= 6 * Len(pages))
    /\ [][batchFetches' # batchFetches =>
             \/ /\ batchPagesFetched' = batchPagesFetched + 1
                /\ bpc' = "done" \/ cursor' = batchPagesFetched' + 1
             \/ /\ batchRateLimits' = batchRateLimits + 1
                /\ batchRetryCount' = batchRetryCount + 1
                /\ batchRetryCount' <= 5
             \/ bpc' = "failed"]_vars

\* witness of C38: every page of a chain of several pages took five rate
\* limits and one more fetch
C38_Witness ==
    /\ bpc = "done"
    /\ Len(pages) > 1
    /\ batchFetches = 6 * Len(pages)

\* C39: a rate-limit retry requests the cursor again and keeps the entries
\* accumulated, so the entries held are always the pages fetched so far, each
\* once and in order; every fetched page returns the retry counter to 0, so
\* the ceiling bounds the rate limits in a row on one page, not their total.
C39_RetryKeepsCursorAndEntries ==
    /\ [][/\ (batchRateLimits' # batchRateLimits) =>
                /\ cursor' = cursor
                /\ allLogs' = allLogs
                /\ batchPagesFetched' = batchPagesFetched
          /\ (batchFetches' # batchFetches /\ batchFetches > 0) =>
                batchRequested' =
                    (IF batchPagesFetched = 0 THEN NoCursor
                     ELSE batchPagesFetched + 1)
          /\ (batchPagesFetched' # batchPagesFetched) =>
                batchRetryCount' = 0]_vars
    /\ [](allLogs = PagesUpTo(pages, batchPagesFetched))

\* witness of C39: the batch ended well after more rate limits than the
\* ceiling allows in a row
C39_Witness ==
    /\ bpc = "done"
    /\ batchRateLimits > 5
    /\ batchOutput = PagesUpTo(pages, Len(pages))

\* --------------------------------------------------------------- TUI mode
TuiInit ==
    /\ InitWith(DefaultRetryCount)
    /\ BackoffIdle
    /\ EntriesIdle
    /\ BatchIdle
    /\ QueryIdle
    /\ \E tags \in ConfiguredTags : TuiInitWith(tags)

pollLocals == <<pollTags, pollFrom, pollTo, pollLogs, pollLatest>>
uiState == <<uipc, ctxDone, changedText, lastEntered>>
fetchState == <<inFlight, tuiFetches, fetchTags, tuiNow>>
tuiShared == <<currentTags, configTags, tuiLastTimestamp>>
mutexes == <<filterMutex, lastTimestampMutex>>

\* time.NewTicker, formatter.go line 516: a tick arrives; the channel holds
\* one tick
Tick ==
    /\ tpc # "returned"
    /\ ~tickPending
    /\ tickPending' = TRUE
    /\ UNCHANGED <<tpc, pollLocals, uiState, fetchState, tuiShared, mutexes,
                   updatesQueued>>
    /\ UNCHANGED <<startTags, otherThanTui>>

\* lines 520-522: the select takes the case <-t.ctx.Done()
PollStop ==
    /\ tpc = "select"
    /\ ctxDone
    /\ tpc' = "returned"
    /\ UNCHANGED <<tickPending, pollLocals, uiState, fetchState, tuiShared,
                   mutexes, updatesQueued>>
    /\ UNCHANGED <<startTags, otherThanTui>>

\* lines 520, 523: the select takes the case <-ticker.C
PollTick ==
    /\ tpc = "select"
    /\ tickPending
    /\ tuiFetches < MaxTuiFetches
    /\ tickPending' = FALSE
    /\ tpc' = "rlockFilter"
    /\ UNCHANGED <<pollLocals, uiState, fetchState, tuiShared, mutexes,
                   updatesQueued>>
    /\ UNCHANGED <<startTags, otherThanTui>>

\* line 524
PollRLockFilter ==
    /\ tpc = "rlockFilter"
    /\ CanRLock(filterMutex)
    /\ filterMutex' = RLock(filterMutex, "poll")
    /\ tpc' = "readFilter"
    /\ UNCHANGED <<tickPending, pollLocals, uiState, fetchState, tuiShared,
                   lastTimestampMutex, updatesQueued>>
    /\ UNCHANGED <<startTags, otherThanTui>>

\* line 525
PollReadFilter ==
    /\ tpc = "readFilter"
    /\ pollTags' = currentTags
    /\ tpc' = "runlockFilter"
    /\ UNCHANGED <<tickPending, pollFrom, pollTo, pollLogs, pollLatest,
                   uiState, fetchState, tuiShared, mutexes, updatesQueued>>
    /\ UNCHANGED <<startTags, otherThanTui>>

\* lines 526-531: the unlock and the update of the configuration
PollRUnlockFilter ==
    /\ tpc = "runlockFilter"
    /\ filterMutex' = RUnlock(filterMutex, "poll")
    /\ configTags' = IF pollTags # configTags THEN pollTags ELSE configTags
    /\ tpc' = "rlockTimestamp"
    /\ UNCHANGED <<tickPending, pollLocals, uiState, fetchState, currentTags,
                   tuiLastTimestamp, lastTimestampMutex, updatesQueued>>
    /\ UNCHANGED <<startTags, otherThanTui>>

\* line 534
PollRLockTimestamp ==
    /\ tpc = "rlockTimestamp"
    /\ CanRLock(lastTimestampMutex)
    /\ lastTimestampMutex' = RLock(lastTimestampMutex, "poll")
    /\ tpc' = "readTimestamp"
    /\ UNCHANGED <<tickPending, pollLocals, uiState, fetchState, tuiShared,
                   filterMutex, updatesQueued>>
    /\ UNCHANGED <<startTags, otherThanTui>>

\* line 535
PollReadTimestamp ==
    /\ tpc = "readTimestamp"
    /\ pollFrom' = tuiLastTimestamp
    /\ tpc' = "runlockTimestamp"
    /\ UNCHANGED <<tickPending, pollTags, pollTo, pollLogs, pollLatest,
                   uiState, fetchState, tuiShared, mutexes, updatesQueued>>
    /\ UNCHANGED <<startTags, otherThanTui>>

\* lines 536-546: the unlock, the window and the request
PollIssueFetch ==
    /\ tpc = "runlockTimestamp"
    /\ lastTimestampMutex' = RUnlock(lastTimestampMutex, "poll")
    /\ pollFrom' = IF pollFrom = ZeroTime THEN tuiNow - tuiFirstWindow
                   ELSE pollFrom + Nanosecond
    /\ pollTo' = tuiNow
    /\ inFlight' = inFlight + 1
    /\ tuiFetches' = tuiFetches + 1
    /\ fetchTags' = configTags
    /\ tpc' = "fetching"
    /\ UNCHANGED <<tickPending, pollTags, pollLogs, pollLatest, uiState,
                   tuiNow, tuiShared, filterMutex, updatesQueued>>
    /\ UNCHANGED <<startTags, otherThanTui>>

\* lines 546-552: the fetch fails; the error is queued for display
PollFetchFailed(latency) ==
    /\ tpc = "fetching"
    /\ inFlight' = inFlight - 1
    /\ tuiNow' = tuiNow + latency
    /\ updatesQueued' = updatesQueued + 1
    /\ tpc' = "select"
    /\ UNCHANGED <<tickPending, pollLocals, uiState, tuiFetches, fetchTags,
                   tuiShared, mutexes>>
    /\ UNCHANGED <<startTags, otherThanTui>>

\* lines 546, 555-556, 561-563: the fetch returns n entries, the latest of
\* them one tick older than to
PollFetchReturned(latency, n) ==
    /\ tpc = "fetching"
    /\ inFlight' = inFlight - 1
    /\ tuiNow' = tuiNow + latency
    /\ pollLogs' = n
    /\ pollLatest' = IF n > 0 THEN pollTo - Nanosecond ELSE ZeroTime
    /\ tpc' = "lockTimestamp"
    /\ UNCHANGED <<tickPending, pollTags, pollFrom, pollTo, uiState,
                   tuiFetches, fetchTags, tuiShared, mutexes, updatesQueued>>
    /\ UNCHANGED <<startTags, otherThanTui>>

\* lines 556 and 563
PollLockTimestamp ==
    /\ tpc = "lockTimestamp"
    /\ CanLock(lastTimestampMutex)
    /\ lastTimestampMutex' = Lock(lastTimestampMutex, "poll")
    /\ tpc' = "writeTimestamp"
    /\ UNCHANGED <<tickPending, pollLocals, uiState, fetchState, tuiShared,
                   filterMutex, updatesQueued>>
    /\ UNCHANGED <<startTags, otherThanTui>>

\* lines 557-559 and 564-569
PollWriteTimestamp ==
    /\ tpc = "writeTimestamp"
    /\ tuiLastTimestamp' =
         UpdateLastTimestamp(tuiLastTimestamp, pollLatest, pollLogs, tuiNow)
    /\ tpc' = "unlockTimestamp"
    /\ UNCHANGED <<tickPending, pollLocals, uiState, fetchState, currentTags,
                   configTags, mutexes, updatesQueued>>
    /\ UNCHANGED <<startTags, otherThanTui>>

\* lines 560 and 570-574: the unlock, then displayLogs (lines 606-644),
\* which queues an update if there are entries
PollDisplay ==
    /\ tpc = "unlockTimestamp"
    /\ lastTimestampMutex' = Unlock(lastTimestampMutex, "poll")
    /\ updatesQueued' = IF pollLogs > 0 THEN updatesQueued + 1 ELSE updatesQueued
    /\ tpc' = "select"
    /\ UNCHANGED <<tickPending, pollLocals, uiState, fetchState, tuiShared,
                   filterMutex>>
    /\ UNCHANGED <<startTags, otherThanTui>>

\* lines 474-475: the input field's text changed to text; the handler asks
\* for the filter mutex
EditFilter(text) ==
    /\ uipc = "idle"
    /\ text # currentTags
    /\ changedText' = text
    /\ uipc' = "lockFilter"
    /\ UNCHANGED <<tpc, tickPending, pollLocals, ctxDone, lastEntered,
                   fetchState, tuiShared, mutexes, updatesQueued>>
    /\ UNCHANGED <<startTags, otherThanTui>>

\* line 475
UiLockFilter ==
    /\ uipc = "lockFilter"
    /\ CanLock(filterMutex)
    /\ filterMutex' = Lock(filterMutex, "ui")
    /\ uipc' = "writeFilter"
    /\ UNCHANGED <<tpc, tickPending, pollLocals, ctxDone, changedText,
                   lastEntered, fetchState, tuiShared, lastTimestampMutex,
                   updatesQueued>>
    /\ UNCHANGED <<startTags, otherThanTui>>

\* line 476
UiWriteFilter ==
    /\ uipc = "writeFilter"
    /\ currentTags' = changedText
    /\ lastEntered' = [any |-> TRUE, text |-> changedText]
    /\ uipc' = "unlockFilter"
    /\ UNCHANGED <<tpc, tickPending, pollLocals, ctxDone, changedText,
                   fetchState, configTags, tuiLastTimestamp, mutexes,
                   updatesQueued>>
    /\ UNCHANGED <<startTags, otherThanTui>>

\* lines 477-481
UiUnlockFilter ==
    /\ uipc = "unlockFilter"
    /\ filterMutex' = Unlock(filterMutex, "ui")
    /\ uipc' = "idle"
    /\ UNCHANGED <<tpc, tickPending, pollLocals, ctxDone, changedText,
                   lastEntered, fetchState, tuiShared, lastTimestampMutex,
                   updatesQueued>>
    /\ UNCHANGED <<startTags, otherThanTui>>

\* lines 494-497: Ctrl-C
Cancel ==
    /\ uipc = "idle"
    /\ ctxDone' = TRUE
    /\ uipc' = "stopped"
    /\ UNCHANGED <<tpc, tickPending, pollLocals, changedText, lastEntered,
                   fetchState, tuiShared, mutexes, updatesQueued>>
    /\ UNCHANGED <<startTags, otherThanTui>>

TuiNext ==
    \/ Tick
    \/ PollStop
    \/ PollTick
    \/ PollRLockFilter
    \/ PollReadFilter
    \/ PollRUnlockFilter
    \/ PollRLockTimestamp
    \/ PollReadTimestamp
    \/ PollIssueFetch
    \/ \E l \in Latencies : PollFetchFailed(l)
    \/ \E l \in Latencies, n \in {0, 2} : PollFetchReturned(l, n)
    \/ PollLockTimestamp
    \/ PollWriteTimestamp
    \/ PollDisplay
    \/ \E text \in FilterTexts : EditFilter(text)
    \/ UiLockFilter
    \/ UiWriteFilter
    \/ UiUnlockFilter
    \/ Cancel

SpecTUI == TuiInit /\ [][TuiNext]_vars

\* C18: once the cancellation signal has been given the polling loop issues
\* no further fetch.
C18_NoFetchAfterCancel ==
    [][ctxDone => tuiFetches' = tuiFetches]_vars

\* C19: at most one fetch is in flight; the filter text is read and written
\* only by a task holding filterMutex, the timestamp cursor only by a task
\* holding lastTimestampMutex; a writer holds its mutex alone.
C19_TuiMutualExclusion ==
    /\ inFlight <= 1
    /\ tpc = "readFilter" => "poll" \in filterMutex.readers
    /\ uipc = "writeFilter" =>
          filterMutex.writer = "ui" /\ filterMutex.readers = {}
    /\ tpc = "readTimestamp" => "poll" \in lastTimestampMutex.readers
    /\ tpc = "writeTimestamp" =>
          lastTimestampMutex.writer = "poll" /\ lastTimestampMutex.readers = {}
    /\ filterMutex.writer # "none" => filterMutex.readers = {}

\* witness of C19: the UI thread waits for filterMutex while the poll task
\* reads the filter text under it, after a first fetch
C19_Witness ==
    /\ tpc = "readFilter"
    /\ uipc = "lockFilter"
    /\ "poll" \in filterMutex.readers
    /\ tuiFetches >= 1

\* C23: in the TUI started with a configured tag filter, every fetch uses
\* the configured filter as long as the user has entered no filter text, and
\* after that the most recently entered text or the text the poll had read
\* when that fetch began.
C23_TuiStartsWithConfiguredFilter ==
    [][tuiFetches' # tuiFetches =>
          IF lastEntered.any
          THEN fetchTags' \in {lastEntered.text, pollTags}
          ELSE fetchTags' = startTags]_vars

\* C40: the poll task holds neither filterMutex nor lastTimestampMutex while
\* a fetch is in flight, nor when it queues a UI update; it never holds both
\* at once; so whenever one of the two tasks waits for a mutex the other
\* task holds that mutex at a position it leaves without waiting.
C40_PollHoldsNoLockAcrossFetch ==
    /\ [](LET holdsFilter == "poll" \in filterMutex.readers
                                \/ filterMutex.writer = "poll"
              holdsTimestamp == "poll" \in lastTimestampMutex.readers
                                   \/ lastTimestampMutex.writer = "poll"
          IN  /\ inFlight > 0 => ~holdsFilter /\ ~holdsTimestamp
              /\ ~(holdsFilter /\ holdsTimestamp)
              /\ lastTimestampMutex.writer \in {"none", "poll"}
              /\ lastTimestampMutex.readers \subseteq {"poll"}
              /\ (uipc = "lockFilter" /\ ~CanLock(filterMutex)) =>
                    tpc \in {"readFilter", "runlockFilter"}
              /\ (tpc = "rlockFilter" /\ ~CanRLock(filterMutex)) =>
                    uipc \in {"writeFilter", "unlockFilter"}
              /\ tpc = "rlockTimestamp" => CanRLock(lastTimestampMutex)
              /\ tpc = "lockTimestamp" => CanLock(lastTimestampMutex))
    /\ [][updatesQueued' # updatesQueued =>
             /\ "poll" \notin filterMutex'.readers \cup lastTimestampMutex'.readers
             /\ "poll" \notin {filterMutex'.writer, lastTimestampMutex'.writer}]_vars

\* witness of C40: the UI thread takes the filter mutex while a fetch is in
\* flight, after an update was queued
C40_Witness ==
    /\ uipc = "writeFilter"
    /\ filterMutex.writer = "ui"
    /\ tpc = "fetching"
    /\ inFlight = 1
    /\ updatesQueued > 0

\* ---------------------------------------------------------- query builder
QueryInit ==
    /\ InitWith(DefaultRetryCount)
    /\ BackoffIdle
    /\ EntriesIdle
    /\ BatchIdle
    /\ TuiIdle
    /\ \E tags \in TagsStrings, level \in LevelStrings,
          api \in CredentialSources, app \in CredentialSources,
          format \in OutputFormats :
            QueryInitWith(tags, level, api, app, format)

\* config.go lines 35-93 and cmd/tail.go lines 100-103: Validate returns an
\* error and runTail returns it; the fields Validate had set by then stay set
ValidateRejects ==
    /\ qpc = "loaded"
    /\ ValidateError(cfgAPIKey, cfgAppKey, environ, cfgOutputFormat,
                     cfgLogLevel) # ""
    /\ qpc' = "invalid"
    /\ cmdErr' = ValidateError(cfgAPIKey, cfgAppKey, environ, cfgOutputFormat,
                               cfgLogLevel)
    /\ cfgAPIKey' = KeyOrEnv(cfgAPIKey, environ.DD_API_KEY)
    /\ cfgAppKey' = IF cfgAPIKey' = "" THEN cfgAppKey
                    ELSE KeyOrEnv(cfgAppKey, environ.DD_APP_KEY)
    /\ UNCHANGED <<cfgTags, cfgLogLevel, cfgLogLevels, cfgOutputFormat,
                   environ, clientCreated, cmdFetches, query>>
    /\ UNCHANGED otherThanQuery

\* config.go lines 35-93: Validate returns nil
ValidateAccepts ==
    /\ qpc = "loaded"
    /\ ValidateError(cfgAPIKey, cfgAppKey, environ, cfgOutputFormat,
                     cfgLogLevel) = ""
    /\ qpc' = "validated"
    /\ cfgAPIKey' = KeyOrEnv(cfgAPIKey, environ.DD_API_KEY)
    /\ cfgAppKey' = KeyOrEnv(cfgAppKey, environ.DD_APP_KEY)
    /\ cfgLogLevels' = ParseLogLevels(cfgLogLevel)
    /\ UNCHANGED <<cfgTags, cfgLogLevel, cfgOutputFormat, environ, cmdErr,
                   clientCreated, cmdFetches, query>>
    /\ UNCHANGED otherThanQuery

\* cmd/tail.go lines 105-123: the client is created, by tui.New in TUI mode
\* and by runTail otherwise
NewClient ==
    /\ qpc = "validated"
    /\ qpc' = "client"
    /\ clientCreated' = TRUE
    /\ UNCHANGED <<cfgTags, cfgLogLevel, cfgLogLevels, cfgAPIKey, cfgAppKey,
                   cfgOutputFormat, environ, cmdErr, cmdFetches, query>>
    /\ UNCHANGED otherThanQuery

\* logs.go lines 216-219 and 575-606: the first fetch builds its query
BuildQuery ==
    /\ qpc = "client"
    /\ qpc' = "built"
    /\ cmdFetches' = cmdFetches + 1
    /\ query' = buildQueryV2(cfgTags, cfgLogLevels, cfgLogLevel)
    /\ UNCHANGED <<cfgTags, cfgLogLevel, cfgLogLevels, cfgAPIKey, cfgAppKey,
                   cfgOutputFormat, environ, cmdErr, clientCreated>>
    /\ UNCHANGED otherThanQuery

\* logs.go lines 306-333: GetLogs with the configuration temp; the fetch
\* succeeds (ok) or fails.  The tag filter and the level string are put
\* back after the fetch, c.config.LogLevels is not.
GetLogs(temp, ok) ==
    /\ qpc = "built"
    /\ qpc' = "fetched"
    /\ LET tempTags == IF temp.tags # <<>> THEN temp.tags ELSE cfgTags
           tempLevel == IF temp.level # <<>> THEN temp.level ELSE cfgLogLevel
           tempLevels == IF temp.level # <<>>
                         THEN ParseLogLevels(temp.level) ELSE cfgLogLevels
       IN  /\ query' = buildQueryV2(tempTags, tempLevels, tempLevel)
           /\ cfgLogLevels' = tempLevels
    /\ cmdFetches' = cmdFetches + 1
    /\ cmdErr' = IF ok THEN "" ELSE "API error"
    /\ UNCHANGED <<cfgTags, cfgLogLevel, cfgAPIKey, cfgAppKey,
                   cfgOutputFormat, environ, clientCreated>>
    /\ UNCHANGED otherThanQuery

QueryNext ==
    \/ ValidateRejects
    \/ ValidateAccepts
    \/ NewClient
    \/ BuildQuery
    \/ \E temp \in TempConfigs, ok \in BOOLEAN : GetLogs(temp, ok)

SpecQuery == QueryInit /\ [][QueryNext]_vars

\* C20: the query has no leading space, no trailing space and no two
\* consecutive spaces, and is empty when the tag filter and the level
\* setting are both empty.
C20_QueryHasNoStraySpaces ==
    qpc = "built" =>
        /\ query # <<>> => (query[1] # " " /\ query[Len(query)] # " ")
        /\ \A i \in 1..(Len(query) - 1) : ~(query[i] = " " /\ query[i + 1] = " ")
        /\ (cfgTags = <<>> /\ cfgLogLevel = <<>>) => query = <<>>

\* C21: the level clause of the query is a parenthesized OR-group when more
\* than one level is supplied, a single status:<level> when exactly one is,
\* and absent when none is, a level setting of only separators and
\* whitespace included. The levels supplied are what is left of the level
\* setting without its separators and its whitespace.
C21_LevelClauseShape ==
    qpc = "built" =>
        LET supplied == SelectSeq(cfgLogLevel, LAMBDA c : c # "," /\ c # " ")
            clause ==
                IF Len(supplied) = 0 THEN <<>>
                ELSE IF Len(supplied) = 1
                     THEN << <<"status:", supplied[1]>> >>
                     ELSE << <<"(">>
                             \o Join([i \in 1..Len(supplied) |->
                                        <<"status:", supplied[i]>>],
                                     <<" ", "OR", " ">>)
                             \o <<")">> >>
        IN  query = Join(TagConditions(cfgTags) \o clause, <<" ">>)

\* C22: when validation fails (the API key or the application key is set
\* neither in the configuration nor in the environment, the output format is
\* not json or text, or a level of the level setting is not one of debug,
\* info, warn, error), the command returns an error at once: no client is
\* created, no request is issued, and the command takes no further step.
C22_InvalidConfigFailsFast ==
    LET parts == Split(cfgLogLevel, ",")
        failing ==
            \/ cfgAPIKey = "" /\ environ.DD_API_KEY = ""
            \/ cfgAppKey = "" /\ environ.DD_APP_KEY = ""
            \/ cfgOutputFormat \notin {"json", "text"}
            \/ \E i \in 1..Len(parts) :
                   /\ TrimSpace(parts[i]) # <<>>
                   /\ \A l \in ValidLevels : TrimSpace(parts[i]) # <<l>>
    IN  (failing /\ qpc # "loaded") =>
            /\ qpc = "invalid"
            /\ cmdErr # ""
            /\ ~clientCreated
            /\ cmdFetches = 0
            /\ query = <<>>
            /\ ~ENABLED QueryNext

C22_Witness ==
    /\ qpc = "invalid"
    /\ cmdErr = "invalid output format"
    /\ cfgOutputFormat = "xml"
    /\ cfgAPIKey = "key"
    /\ cfgAppKey = "key"
    /\ cfgLogLevel = <<"error">>

\* C37: GetLogs leaves the configuration of the client as it was before the
\* call, tag filter, level string and parsed level list, whether its fetch
\* succeeds or fails, so the query the client builds afterwards is the one
\* it built before.
C37_GetLogsRestoresConfig ==
    [][qpc' = "fetched" =>
          /\ cfgTags' = cfgTags
          /\ cfgLogLevel' = cfgLogLevel
          /\ cfgLogLevels' = cfgLogLevels
          /\ buildQueryV2(cfgTags', cfgLogLevels', cfgLogLevel') =
                buildQueryV2(cfgTags, cfgLogLevels, cfgLogLevel)]_vars

\* ------------------------------------------------------ CalculateBackoff
\* The function on its own: any retry count, any draw of rand.Float64().
BackoffInit ==
    /\ InitWith(DefaultRetryCount)
    /\ EntriesIdle
    /\ BatchIdle
    /\ TuiIdle
    /\ QueryIdle
    /\ cbRetryCount \in BackoffRetryCounts
    /\ cbDraw \in JitterDraws
    /\ cbCalled = FALSE
    /\ cbResult = 0

\* retry.go lines 10-30
CallCalculateBackoff ==
    /\ ~cbCalled
    /\ cbCalled' = TRUE
    /\ cbResult' = CalculateBackoff(cbRetryCount, cbDraw)
    /\ UNCHANGED <<cbRetryCount, cbDraw>>
    /\ UNCHANGED otherThanBackoff

SpecBackoff == BackoffInit /\ [][CallCalculateBackoff]_vars

\* min(30s, 2^n s), the wait before jitter
BackoffBase(n) == Min(maxBackoffSeconds, 2 ^ n) * Second

\* C11: CalculateBackoff(0) is exactly 1s for every draw; for n >= 1 the
\* result is within the jitter bound (at most 20%) of min(30s, 2^n s), at
\* most 30s and at least 1s.
C11_BackoffWithinJitterBound ==
    cbCalled =>
        /\ cbRetryCount = 0 => cbResult = 1 * Second
        /\ cbRetryCount >= 1 =>
              /\ 5 * (cbResult - BackoffBase(cbRetryCount)) <= BackoffBase(cbRetryCount)
              /\ 5 * (BackoffBase(cbRetryCount) - cbResult) <= BackoffBase(cbRetryCount)
              /\ cbResult <= maxBackoffSeconds * Second
              /\ cbResult >= 1 * Second

\* --------------------------------------------------- end-to-end scenario
\* The fetch sequence 5 entries, 0 entries, HTTP 429, 2 entries under the
\* default settings.
ScenarioBursts ==
    {[n |-> 5, age |-> 25 * Second + 1], [n |-> 3, age |-> 25 * Second + 1],
     [n |-> 2, age |-> 1], [n |-> 2, age |-> Second \div 2]}
ScenarioCounts == <<5, 0, 0, 2>>
ScenarioRateLimited == {3}

ScenarioInit ==
    /\ InitWith(DefaultRetryCount)
    /\ BackoffIdle
    /\ EntriesIdle
    /\ BatchIdle
    /\ TuiIdle
    /\ QueryIdle

ScenarioNext ==
    \/ \E b \in ScenarioBursts : Arrive(b)
    \/ \E l \in Latencies :
          /\ fetches < Len(ScenarioCounts)
          /\ fetches + 1 \notin ScenarioRateLimited
          /\ FetchSucceeded(l)
          /\ lastCount' = ScenarioCounts[fetches + 1]
    \/ \E l \in Latencies, d \in IntnDraws :
          /\ fetches + 1 \in ScenarioRateLimited
          /\ FetchRateLimited([status |-> 429, body429 |-> FALSE], l, d)

SpecScenario == ScenarioInit /\ [][ScenarioNext]_vars

\* C10: in the scenario currentInterval is never shrunk (fewer than five
\* consecutive successes), the rate-limit backoff is applied exactly once
\* and consecutiveSuccesses is 0 right after the 429, exactly 7 lines are
\* emitted, fetch by fetch, and no entry is emitted twice.
C10_ScenarioOutcome ==
    /\ consecutiveSuccesses < intervalShrinkAfter
    /\ fetches \in {0, 1} => currentInterval = baseInterval
    /\ fetches = 2 => currentInterval = (baseInterval * 105) \div 100
    /\ fetches \in {3, 4} => currentInterval = 2 * baseInterval
    /\ rateLimits = (IF fetches >= 3 THEN 1 ELSE 0)
    /\ rateLimitBackoff = (IF fetches >= 3
                           THEN GrowRateLimitBackoff(initialRateLimitBackoff)
                           ELSE initialRateLimitBackoff)
    /\ fetches = 3 => consecutiveSuccesses = 0
    /\ Len(output) = (IF fetches = 0 THEN 0 ELSE IF fetches = 4 THEN 7 ELSE 5)
    /\ \A i, j \in 1..Len(output) : i < j => output[i].ID # output[j].ID

\* ------------------------------------------------------- rate-limit storm
\* The tail loop against a source that stores nothing and answers any
\* number of fetches with HTTP 429.
StormNext ==
    \/ \E l \in Latencies, d \in IntnDraws :
          FetchRateLimited([status |-> 429, body429 |-> FALSE], l, d)
    \/ \E l \in Latencies : FetchSucceeded(l)

SpecStorm == ScenarioInit /\ [][StormNext]_vars

\* C27: rateLimitBackoff starts at 5 seconds, every rate limit makes it
\* min(60 s, 1.5 * its value before), and it stays within [5 s, 60 s]; the
\* sleep taken on a rate limit is at least the new rateLimitBackoff and less
\* than that plus one tenth of it.
C27_RateLimitBackoffGrowth ==
    /\ rateLimitBackoff = 5 * Second
    /\ [](5 * Second <= rateLimitBackoff /\ rateLimitBackoff <= 60 * Second)
    /\ [][(FetchStep /\ lastResult' = "ratelimit") =>
             /\ rateLimitBackoff' =
                   Min(60 * Second, (rateLimitBackoff * 3) \div 2)
             /\ \E l \in Latencies :
                   LET slept == now' - now - l
                   IN  /\ slept >= rateLimitBackoff'
                       /\ 10 * (slept - rateLimitBackoff') < rateLimitBackoff']_vars

\* witness of C27: the growth has reached the ceiling
C27_Witness ==
    /\ lastResult = "ratelimit"
    /\ rateLimitBackoff = 60 * Second
    /\ rateLimits = MaxFetches

\* ------------------------------------------------ entries not well formed
\* One run of TailLogs, or of GetLogsFromTimestamp with a well-formed range,
\* against a source some of whose entries have a timestamp attribute that
\* does not parse or are rejected by the formatter.
EntriesInit ==
    /\ InitWith(DefaultRetryCount)
    /\ BackoffIdle
    /\ TuiIdle
    /\ QueryIdle
    /\ \E faults \in EntryFaults :
          /\ malformed = faults.malformed
          /\ unformattable = faults.unformattable
    /\ \/ BatchIdle
       \/ \E chain \in PageChains :
             BatchInitWith(<<"2024-01-15T10:00:00Z", ",", "2024-01-15T11:00:00Z">>,
                           chain)

EntriesNext ==
    \/ \E b \in Bursts : timestamp = <<>> /\ Arrive(b)
    \/ \E l \in Latencies : timestamp = <<>> /\ FetchSucceeded(l)
    \/ \E l \in Latencies :
          /\ timestamp = <<>>
          /\ rateLimits + failures < MaxErrors
          /\ FetchRateLimited([status |-> 429, body429 |-> FALSE], l, 0)
    \/ \E l \in Latencies, d \in Float64Draws :
          /\ timestamp = <<>>
          /\ rateLimits + failures < MaxErrors
          /\ FetchFailed([status |-> 500, body429 |-> FALSE], l, d)
    \/ timestamp # <<>> /\ BatchNext

SpecEntries == EntriesInit /\ [][EntriesNext]_vars

\* C33: a formatter error on an entry skips that entry only: the other
\* entries of the response are printed in order, lastTimestamp is updated
\* from the whole response, the tail loop goes on, and the batch output ends
\* without an error with every other entry printed.
C33_FormatterErrorSkipsOneEntry ==
    /\ [][SuccessStep =>
             LET data == ResponseData(from', to')
                 kept == SelectSeq(data, LAMBDA d : d.id \notin unformattable)
                 latest == LatestOf(data, ZeroTime)
             IN  /\ Len(output') = Len(output) + Len(kept)
                 /\ \A i \in 1..Len(kept) :
                       output'[Len(output) + i].ID = kept[i].id
                 /\ latest > lastTimestamp => lastTimestamp' = latest
                 /\ pc' = "loop"]_vars
    /\ [](bpc = "done" =>
             /\ batchErr = ""
             /\ batchOutput =
                   SelectSeq(allLogs, LAMBDA l : l.ID \notin unformattable))

\* witness of C33: of a response of five entries the second was rejected by
\* the formatter, the others were printed and the last one became
\* lastTimestamp
C33_Witness ==
    /\ unformattable = {2}
    /\ lastResult = "ok"
    /\ lastCount = 5
    /\ Len(output) = 4
    /\ \A id \in {1, 3, 4, 5} : Emitted(id)
    /\ lastTimestamp = okLatest
    /\ pc = "loop"

\* C34: the latest timestamp of a successful response is the greatest
\* timestamp of its entries, and it is the zero time exactly when the
\* response has no entry.
C34_LatestIsMaximum ==
    [][SuccessStep =>
          LET data == ResponseData(from', to')
          IN  /\ (okLatest' = ZeroTime) <=> (data = <<>>)
              /\ data # <<>> =>
                    /\ \A i \in 1..Len(data) : okLatest' >= data[i].ts
                    /\ \E i \in 1..Len(data) : okLatest' = data[i].ts]_vars

\* C36: a successful fetch that is empty or has a timestamp that parses
\* leaves lastTimestamp non-zero; once non-zero it is never zero again, and
\* from then on the lower bound of every fetch is lastTimestamp + 1ns,
\* whatever searchWindow is.
C36_CursorStaysSet ==
    [][/\ (SuccessStep /\ (lastCount' = 0 \/ okLatest' # ZeroTime)) =>
             lastTimestamp' # ZeroTime
       /\ lastTimestamp # ZeroTime => lastTimestamp' # ZeroTime
       /\ (FetchStep /\ lastTimestamp # ZeroTime) =>
             from' = lastTimestamp + Nanosecond]_vars

\* witness of C36: the first fetch returned one entry whose timestamp does
\* not parse and left lastTimestamp zero, a later one has set it, and a
\* fetch after that used it while searchWindow had been adapted
C36_Witness ==
    /\ malformed = {1}
    /\ Emitted(1)
    /\ lastTimestamp # ZeroTime
    /\ from = lastTimestamp + Nanosecond
    /\ searchWindow # 30 * Second
    /\ lastResult = "ratelimit"
====
